---- MODULE Spec2Model ----
(***************************************************************************)
(* Signal-ingestion-to-execution pipeline of MultiAgent-AutoTrading:       *)
(*   core/message_processor.py  MessageProcessor (id de-duplication)       *)
(*   utils/circuit_breaker.py   CircuitBreaker                             *)
(*   core/executor.py           ExecutionService (import of the module)    *)
(*   core/discord_gateway.py    DiscordGateway (reconnect state machine)   *)
(*   core/risk_guard.py         RiskGuardService                           *)
(*   utils/retry.py             retry_with_backoff                         *)
(*   core/parser.py             ParserFactory                              *)
(*   core/orchestrator.py       TradingOrchestrator.process_message        *)
(* Each component has its own specification over the shared variables; the *)
(* variables of the other components stay at their constructed values.     *)
(***************************************************************************)
EXTENDS Integers, Sequences, FiniteSets, TLC

VARIABLES
    \* MessageProcessor
    processed_tracked,   \* the tracked ids held in processed_message_ids
    processed_other,     \* how many other ids processed_message_ids holds
    forwarded,           \* per tracked id: calls of signal_callback (history)
    mp_event,            \* what the last process_message call did (history)
    \* CircuitBreaker
    failure_threshold, reset_timeout, half_open_max_calls,
    failure_count, last_failure_time, state, half_open_count,
    pc,                  \* per caller: position inside CircuitBreaker.execute
    now,                 \* time.time()
    consec_fail,         \* failing calls in a row (history)
    trials,              \* calls admitted since the circuit went HALF_OPEN (history)
    cb_event,            \* what the last step of the breaker did (history)
    \* core.executor
    exec_import,         \* outcome of executing the module core/executor.py
    exec_log,            \* the host's execute_trade attempts, in order (history)
    place_order_calls,   \* invocations of broker.place_order
    \* DiscordGateway
    running, ws, sock, reconnect_count, session_id, last_sequence,
    heartbeat_thread,    \* self.heartbeat_thread: "none" (None, or a thread that has
                         \* ended), "loop" (inside _heartbeat_loop's while), "done"
                         \* (the loop is left, the thread has not ended yet)
    timers,              \* threading.Timer threads not yet fired
    connecting,          \* threads inside connect(), before its outcome
    hs,                  \* per socket: how far the handshake has got (history)
    last_delay,          \* delay passed to the last threading.Timer (history)
    since_connected,     \* timers started since the last CONNECTED (history)
    gw_event,            \* what the last step of the gateway did (history)
    callback_calls,      \* message_callback invocations made by the last step (history)
    \* RiskGuardService
    max_position_size,   \* fraction of the balance, in 1/10000
    daily_loss_limit,    \* fraction of the balance, in 1/10000
    max_open_positions,
    has_provider,        \* account_info_provider is not None
    blacklisted_symbols,
    recent_trades,       \* trade key -> time of the last approval
    daily_pnl, daily_pnl_reset_day,
    wall,                \* datetime.now(), seconds
    today,               \* datetime.now().date(), a day number
    rg_result,           \* what the last evaluate_alert call returned (history)
    rg_trace,            \* if the last step was an evaluate_alert call: the alert
                         \* it was given and the way it took (history)
    \* retry_with_backoff
    max_retries, exception_types, jitter,
    retries,
    rt_pc,               \* position inside wrapper
    rt_outcomes,         \* how each invocation of func in this call ended (history)
    rt_sleeps,           \* the time.sleep calls of this call, in milliseconds (history)
    rt_raised,           \* the exception the call let out, "" if none (history)
    \* TradingOrchestrator
    stats, processed_alerts,
    correlation_ids,     \* how many ids the set holds (uuid4 values, all distinct)
    or_result,           \* how the last process_message call ended (history)
    or_trace,            \* its message, where it ended and the orders the
                         \* execution backend received from it (history)
    \* core.listener.DiscordListener
    message_throttle, message_count,
    message_pattern,     \* a compiled pattern is set
    ls_event             \* what the last step of the listener did (history)

mpVars == <<processed_tracked, processed_other, forwarded, mp_event>>
cbVars == <<failure_threshold, reset_timeout, half_open_max_calls, failure_count,
            last_failure_time, state, half_open_count, pc, now, consec_fail,
            trials, cb_event>>
exVars == <<exec_import, exec_log, place_order_calls>>
gwVars == <<running, ws, sock, reconnect_count, session_id, last_sequence,
            heartbeat_thread, timers, connecting, hs, last_delay, since_connected,
            gw_event, callback_calls>>
rgVars == <<max_position_size, daily_loss_limit, max_open_positions, has_provider,
            blacklisted_symbols, recent_trades, daily_pnl, daily_pnl_reset_day,
            wall, today, rg_result, rg_trace>>
\* The components added after the gateway, for the frames of the older ones.
rtVars == <<max_retries, exception_types, jitter, retries, rt_pc, rt_outcomes,
            rt_sleeps, rt_raised>>
orVars == <<stats, processed_alerts, correlation_ids, or_result, or_trace>>
lsVars == <<message_throttle, message_count, message_pattern, ls_event>>
restVars == <<rgVars, rtVars, orVars, lsVars>>
vars == <<mpVars, cbVars, exVars, gwVars, restVars>>

Min(a, b) == IF a < b THEN a ELSE b

(***************************************************************************)
(* MessageProcessor                                                        *)
(***************************************************************************)
\* Ids followed individually; every other id is only counted (processed_other).
NumIds == 1
\* Cap of the history counter `forwarded`.
FwdCap == 2
MaxProcessed == 1000
EvictCount == 500

Ids == 1..NumIds

MPInit ==
    /\ processed_tracked = {}
    /\ processed_other = 0
    /\ forwarded = [i \in Ids |-> 0]
    /\ mp_event = [kind |-> "none", id |-> 0]

\* The duplicate check left out.
AlreadyProcessed_Never(id) == FALSE
\* `message_id not in self.processed_message_ids`, negated
AlreadyProcessed(id) == id \in processed_tracked

\* The capacity policy left out.
Evictions_None(tr, oth) == { [tr |-> {}, oth |-> 0] }
\* list(self.processed_message_ids)[:500]: a set has no order the program
\* controls, so any 500 of the ids held (the one just added included) may go.
\* tr: the tracked ids evicted, oth: how many other ids are evicted.
Evictions(tr, oth) ==
    IF Cardinality(tr) + oth > MaxProcessed
    THEN { [tr |-> S, oth |-> EvictCount - Cardinality(S)] :
             S \in { S \in SUBSET tr : /\ Cardinality(S) <= EvictCount
                                       /\ EvictCount - Cardinality(S) <= oth } }
    ELSE { [tr |-> {}, oth |-> 0] }

\* process_message for a message carrying tracked id `id`.
ProcessMessage(id, monitored, signal) ==
    /\ IF monitored /\ ~AlreadyProcessed(id)
       THEN /\ \E ev \in Evictions(processed_tracked \cup {id}, processed_other) :
                 /\ processed_tracked' = (processed_tracked \cup {id}) \ ev.tr
                 /\ processed_other' = processed_other - ev.oth
            /\ forwarded' = IF signal
                            THEN [forwarded EXCEPT ![id] = Min(FwdCap, @ + 1)]
                            ELSE forwarded
            /\ mp_event' = [kind |-> IF signal THEN "forwarded" ELSE "no_signal",
                            id |-> id]
       ELSE /\ mp_event' = [kind |-> IF monitored THEN "duplicate" ELSE "unmonitored",
                            id |-> id]
            /\ UNCHANGED <<processed_tracked, processed_other, forwarded>>
    /\ UNCHANGED <<cbVars, exVars, gwVars, restVars>>

\* process_message for a message whose id is not a tracked one; `held` says
\* whether processed_message_ids holds that id.
ProcessMessageOther(held, monitored, signal) ==
    /\ held => processed_other > 0
    /\ IF monitored /\ ~held
       THEN /\ \E ev \in Evictions(processed_tracked, processed_other + 1) :
                 /\ processed_tracked' = processed_tracked \ ev.tr
                 /\ processed_other' = processed_other + 1 - ev.oth
            /\ mp_event' = [kind |-> IF signal THEN "forwarded" ELSE "no_signal",
                            id |-> 0]
       ELSE /\ mp_event' = [kind |-> IF monitored THEN "duplicate" ELSE "unmonitored",
                            id |-> 0]
            /\ UNCHANGED <<processed_tracked, processed_other>>
    /\ UNCHANGED <<forwarded, cbVars, exVars, gwVars, restVars>>

(***************************************************************************)
(* CircuitBreaker                                                          *)
(***************************************************************************)
\* Threads calling CircuitBreaker.execute.
NumCallers == 2
\* Largest value of the clock.
MaxTime == 3
\* Largest constructor arguments tried.
MaxThreshold == 2
MaxResetTimeout == 2
MaxHalfOpenCalls == 2

Callers == 1..NumCallers

\* CircuitBreaker.__init__, for any constructor arguments within the bounds.
CBInit ==
    /\ failure_threshold \in 1..MaxThreshold
    /\ reset_timeout \in 1..MaxResetTimeout
    /\ half_open_max_calls \in 1..MaxHalfOpenCalls
    /\ failure_count = 0
    /\ last_failure_time = 0
    /\ state = "CLOSED"
    /\ half_open_count = 0
    /\ pc = [t \in Callers |-> "idle"]
    /\ now = 0
    /\ consec_fail = 0
    /\ trials = 0
    /\ cb_event = "none"

\* The breaker nobody calls, for the specifications of the other components.
CBIdle ==
    /\ failure_threshold = 1
    /\ reset_timeout = 1
    /\ half_open_max_calls = 1
    /\ failure_count = 0
    /\ last_failure_time = 0
    /\ state = "CLOSED"
    /\ half_open_count = 0
    /\ pc = [t \in Callers |-> "idle"]
    /\ now = 0
    /\ consec_fail = 0
    /\ trials = 0
    /\ cb_event = "none"

cbConfig == <<failure_threshold, reset_timeout, half_open_max_calls>>

\* The timeout test left out: an OPEN circuit admits the next call at once.
ResetTimeoutElapsed_Always == TRUE
\* time.time() - self.last_failure_time >= self.reset_timeout
ResetTimeoutElapsed == now - last_failure_time >= reset_timeout

\* self.half_open_count >= self.half_open_max_calls
HalfOpenSaturated(count) == count >= half_open_max_calls

\* Every rejected call recorded as a failure.
RejectionRecorded_Always(rejected) == rejected
\* The `raise CircuitBreakerError` of lines 37 and 40 stand before the `try`
\* of line 42, so the handler of lines 57-59 (record_failure) does not see
\* them.
RejectionRecorded(rejected) == FALSE

\* execute, lines 31-40: the gate in front of the call.
CallBegin(t) ==
    /\ pc[t] = "idle"
    /\ LET toHalf == state = "OPEN" /\ ResetTimeoutElapsed
           state1 == IF toHalf THEN "HALF_OPEN" ELSE state
           hoc1   == IF toHalf THEN 0 ELSE half_open_count
           rejected == \/ state = "OPEN" /\ ~ResetTimeoutElapsed
                       \/ state1 = "HALF_OPEN" /\ HalfOpenSaturated(hoc1)
           recorded == RejectionRecorded(rejected)
       IN  /\ failure_count' = IF recorded THEN failure_count + 1 ELSE failure_count
           /\ last_failure_time' = IF recorded THEN now ELSE last_failure_time
           /\ IF state = "OPEN" /\ ~ResetTimeoutElapsed
              THEN /\ cb_event' = "reject_open"
                   /\ UNCHANGED <<state, half_open_count, pc, trials>>
              ELSE /\ state' = state1
                   /\ half_open_count' = hoc1
                   /\ IF state1 = "HALF_OPEN" /\ HalfOpenSaturated(hoc1)
                      THEN /\ cb_event' = "reject_half_open"
                           /\ trials' = IF toHalf THEN 0 ELSE trials
                           /\ UNCHANGED pc
                      ELSE /\ cb_event' = "admit"
                           /\ trials' = IF state1 = "HALF_OPEN"
                                        THEN (IF toHalf THEN 0 ELSE trials) + 1
                                        ELSE trials
                           /\ pc' = [pc EXCEPT ![t] = "admitted"]
    /\ UNCHANGED <<cbConfig, now, consec_fail>>
    /\ UNCHANGED <<mpVars, exVars, gwVars, restVars>>

\* execute, lines 42-46: count the trial, then call func.
Enter(t) ==
    /\ pc[t] = "admitted"
    /\ half_open_count' = IF state = "HALF_OPEN" THEN half_open_count + 1
                          ELSE half_open_count
    /\ pc' = [pc EXCEPT ![t] = "in_func"]
    /\ cb_event' = "enter"
    /\ UNCHANGED <<cbConfig, failure_count, last_failure_time, state, now,
                   consec_fail, trials>>
    /\ UNCHANGED <<mpVars, exVars, gwVars, restVars>>

\* A successful trial that leaves the circuit HALF_OPEN.
CloseOnSuccess_Never == FALSE
\* `if self.state == CircuitState.HALF_OPEN` after func returned, line 49.
CloseOnSuccess == state = "HALF_OPEN"

\* execute, lines 46-55: func returned.
FuncReturn(t) ==
    /\ pc[t] = "in_func"
    /\ IF CloseOnSuccess
       THEN /\ state' = "CLOSED"
            /\ failure_count' = 0
            /\ half_open_count' = 0
       ELSE UNCHANGED <<state, failure_count, half_open_count>>
    /\ pc' = [pc EXCEPT ![t] = "idle"]
    /\ consec_fail' = 0
    /\ cb_event' = "success"
    /\ UNCHANGED <<cbConfig, last_failure_time, now, trials>>
    /\ UNCHANGED <<mpVars, exVars, gwVars, restVars>>

\* A failed trial that does not reopen the circuit.
OpensOnFailure_ClosedOnly(count) == state = "CLOSED" /\ count >= failure_threshold
\* record_failure, lines 65-66: when a recorded failure opens the circuit.
OpensOnFailure(count) ==
    \/ state = "CLOSED" /\ count >= failure_threshold
    \/ state = "HALF_OPEN"

\* execute, lines 57-59, and record_failure: func raised.
FuncRaise(t) ==
    /\ pc[t] = "in_func"
    /\ failure_count' = failure_count + 1
    /\ last_failure_time' = now
    /\ state' = IF OpensOnFailure(failure_count + 1) THEN "OPEN" ELSE state
    /\ pc' = [pc EXCEPT ![t] = "idle"]
    /\ consec_fail' = consec_fail + 1
    /\ cb_event' = "failure"
    /\ UNCHANGED <<cbConfig, half_open_count, now, trials>>
    /\ UNCHANGED <<mpVars, exVars, gwVars, restVars>>

\* time passes
Tick ==
    /\ now < MaxTime
    /\ now' = now + 1
    /\ cb_event' = "tick"
    /\ UNCHANGED <<cbConfig, failure_count, last_failure_time, state,
                   half_open_count, pc, consec_fail, trials>>
    /\ UNCHANGED <<mpVars, exVars, gwVars, restVars>>


AllIdle == \A t \in Callers : pc[t] = "idle"

\* A call made by the one dispatch thread: the previous call has finished.
SerialCallBegin(t) == AllIdle /\ CallBegin(t)

(***************************************************************************)
(* core/executor.py: ExecutionService                                      *)
(***************************************************************************)
\* Attempts of the host to execute a trade.
MaxExecCalls == 4
ExecFailureThreshold == 3
ExecResetTimeout == 60

\* The keyword arguments line 61 passes to circuit_breaker, and the
\* parameters circuit_breaker declares (all of them required).
DecoratorKwargs == {"service_name", "failure_threshold", "reset_timeout"}
DecoratorParams == {"circuit"}

\* Python's binding of a keyword-only call to a signature without defaults.
CallBinds(kwargs, params) == kwargs = params

\* What the backend would answer: place_order fills, returns a failed result
\* or raises; or broker.connect() fails while the service is not connected.
BackendModes == {"fills", "returns_failed", "raises", "cannot_connect"}

ExecInit ==
    /\ exec_import = "pending"
    /\ exec_log = <<>>
    /\ place_order_calls = 0

\* The class body of ExecutionService is executed when core.executor is first
\* imported; its line 61 calls circuit_breaker(service_name=..., ...).
ImportExecutor ==
    /\ exec_import = "pending"
    /\ exec_import' = IF CallBinds(DecoratorKwargs, DecoratorParams)
                      THEN "loaded" ELSE "type_error"
    /\ UNCHANGED <<exec_log, place_order_calls>>
    /\ UNCHANGED <<mpVars, cbVars, gwVars, restVars>>

\* The host reaches for ExecutionService.execute_trade while the backend
\* would answer place_order as `mode`. With the class body failed there is no
\* ExecutionService: the attempt ends in the TypeError of the import, no
\* circuit exists and the backend is not contacted.
HostExecuteTrade(mode) ==
    /\ exec_import = "type_error"
    /\ Len(exec_log) < MaxExecCalls
    /\ exec_log' = Append(exec_log, [backend |-> mode, outcome |-> "type_error",
                                     orders |-> 0, at |-> now])
    /\ UNCHANGED <<exec_import, place_order_calls>>
    /\ UNCHANGED <<mpVars, cbVars, gwVars, restVars>>

(***************************************************************************)
(* core/discord_gateway.py: DiscordGateway                                 *)
(***************************************************************************)
\* WebSocketApp objects alive at once (a closed one is forgotten).
MaxSockets == 2
\* threading.Timer threads pending at once, threads inside connect() at once.
MaxTimers == 1
MaxConnecting == 1
\* Largest value reconnect_count is followed to.
MaxReconnectCount == 22
\* Largest sequence number a frame carries.
MaxSeq == 1
reconnect_max == 20
DelayCap == 30
DelayBase == 2

Sockets == 1..MaxSockets

\* DiscordGateway.__init__
GWInit ==
    /\ running = FALSE
    /\ ws = 0
    /\ sock = [s \in Sockets |-> "free"]
    /\ reconnect_count = 0
    /\ session_id = FALSE
    /\ last_sequence = 0
    /\ heartbeat_thread = "none"
    /\ timers = 0
    /\ connecting = 0
    /\ hs = [s \in Sockets |-> "none"]
    /\ last_delay = 0
    /\ since_connected = 0
    /\ gw_event = "none"
    /\ callback_calls = 0

\* start(): running = True, then connect() is entered.
Start ==
    /\ ~running
    /\ connecting < MaxConnecting
    /\ running' = TRUE
    /\ connecting' = connecting + 1
    /\ gw_event' = "start"
    /\ UNCHANGED <<ws, sock, reconnect_count, session_id, last_sequence,
                   heartbeat_thread, timers, hs, last_delay, since_connected>>
    /\ callback_calls' = 0
    /\ UNCHANGED <<mpVars, cbVars, exVars, restVars>>

\* stop(): running = False; the socket self.ws refers to is closed.
Stop ==
    /\ running
    /\ running' = FALSE
    /\ sock' = IF ws # 0 /\ sock[ws] = "open"
               THEN [sock EXCEPT ![ws] = "closing"] ELSE sock
    /\ gw_event' = "stop"
    /\ UNCHANGED <<ws, reconnect_count, session_id, last_sequence, heartbeat_thread,
                   timers, connecting, hs, last_delay, since_connected>>
    /\ callback_calls' = 0
    /\ UNCHANGED <<mpVars, cbVars, exVars, restVars>>

\* min(30, 2 ** self.reconnect_count)
ReconnectDelay(count) == Min(DelayCap, DelayBase ^ count)

\* Room in the model for one more scheduling.
CanSchedule == running => (reconnect_count < MaxReconnectCount /\ timers < MaxTimers)

\* _schedule_reconnect()
ScheduleReconnect ==
    IF ~running
    THEN UNCHANGED <<reconnect_count, timers, last_delay, since_connected>>
    ELSE /\ reconnect_count' = reconnect_count + 1
         /\ IF reconnect_count + 1 > reconnect_max
            THEN UNCHANGED <<timers, last_delay, since_connected>>
            ELSE /\ timers' = timers + 1
                 /\ last_delay' = ReconnectDelay(reconnect_count + 1)
                 /\ since_connected' = since_connected + 1

\* How a call of _schedule_reconnect ended.
ScheduleOutcome ==
    IF ~running THEN "stopped"
    ELSE IF reconnect_count + 1 > reconnect_max THEN "exhausted" ELSE "scheduled"

FreeSockets == { s \in Sockets : sock[s] = "free" }

\* connect(), from its entry to its outcome: the gateway URL is fetched and a
\* WebSocketApp is created and run on a new thread, or the fetch fails and
\* _schedule_reconnect() is called.
ConnectFinish(ok) ==
    /\ connecting > 0
    /\ connecting' = connecting - 1
    /\ IF ok
       THEN /\ FreeSockets # {}
            /\ LET s == CHOOSE x \in FreeSockets : \A y \in FreeSockets : x <= y
                   old == IF ws # 0 /\ sock[ws] = "dead"
                          THEN [sock EXCEPT ![ws] = "free"] ELSE sock
               IN  /\ ws' = s
                   /\ sock' = [old EXCEPT ![s] = "open"]
                   /\ hs' = [hs EXCEPT ![s] = "none"]
            /\ gw_event' = "socket_opened"
            /\ UNCHANGED <<reconnect_count, timers, last_delay, since_connected>>
       ELSE /\ CanSchedule
            /\ ScheduleReconnect
            /\ gw_event' = "fail_" \o ScheduleOutcome
            /\ UNCHANGED <<ws, sock, hs>>
    /\ UNCHANGED <<running, session_id, last_sequence, heartbeat_thread>>
    /\ callback_calls' = 0
    /\ UNCHANGED <<mpVars, cbVars, exVars, restVars>>

\* A threading.Timer started by _schedule_reconnect fires: connect() is entered.
TimerFire ==
    /\ timers > 0
    /\ connecting < MaxConnecting
    /\ timers' = timers - 1
    /\ connecting' = connecting + 1
    /\ gw_event' = "timer_connect"
    /\ UNCHANGED <<running, ws, sock, reconnect_count, session_id, last_sequence,
                   heartbeat_thread, hs, last_delay, since_connected>>
    /\ callback_calls' = 0
    /\ UNCHANGED <<mpVars, cbVars, exVars, restVars>>

\* The transport of socket s closes (peer, network).
PeerClose(s) ==
    /\ sock[s] = "open"
    /\ sock' = [sock EXCEPT ![s] = "closing"]
    /\ gw_event' = "transport_closed"
    /\ UNCHANGED <<running, ws, reconnect_count, session_id, last_sequence,
                   heartbeat_thread, timers, connecting, hs, last_delay,
                   since_connected>>
    /\ callback_calls' = 0
    /\ UNCHANGED <<mpVars, cbVars, exVars, restVars>>

\* _on_close, on the thread of the closed socket s.
OnClose(s) ==
    /\ sock[s] = "closing"
    /\ CanSchedule
    /\ ScheduleReconnect
    /\ sock' = [sock EXCEPT ![s] = IF ws = s THEN "dead" ELSE "free"]
    /\ hs' = [hs EXCEPT ![s] = "none"]
    /\ gw_event' = "close_" \o ScheduleOutcome
    /\ UNCHANGED <<running, ws, session_id, last_sequence, heartbeat_thread,
                   connecting>>
    /\ callback_calls' = 0
    /\ UNCHANGED <<mpVars, cbVars, exVars, restVars>>

\* `self.heartbeat_thread and self.heartbeat_thread.is_alive()`
IsAlive == heartbeat_thread # "none"

\* `if self.session_id and self.last_sequence`
ShouldResume == session_id /\ last_sequence # 0

\* _on_message, op 10 (hello) arriving on socket s: _start_heartbeat(), which
\* starts a thread unless the thread it holds is still alive, then
\* _send_resume() or _send_identify(), both of which send on self.ws; a send
\* on a closed socket raises and is caught by the handler.
OnHello(s) ==
    /\ sock[s] = "open"
    /\ hs[s] = "none"
    /\ heartbeat_thread' = IF IsAlive THEN heartbeat_thread ELSE "loop"
    /\ LET h1 == [hs EXCEPT ![s] = "hello"]
           sent == sock[ws] = "open" /\ h1[ws] \in {"none", "hello"}
       IN  /\ hs' = IF sent
                    THEN [h1 EXCEPT ![ws] = IF ShouldResume THEN "resume_sent"
                                            ELSE "identify_sent"]
                    ELSE h1
           /\ gw_event' = IF ~sent THEN "handshake_lost"
                          ELSE IF ShouldResume THEN "resume" ELSE "identify"
    /\ UNCHANGED <<running, ws, sock, reconnect_count, session_id, last_sequence,
                   timers, connecting, last_delay, since_connected>>
    /\ callback_calls' = 0
    /\ UNCHANGED <<mpVars, cbVars, exVars, restVars>>

\* Whether a dispatch of this event type resets reconnect_count (lines 122-124).
ResetsReconnectCount(event_type) == event_type = "READY"

\* What self.message_callback does when it is invoked.
CallbackOutcomes == {"returned", "raised"}

\* Lines 128-129: how often a dispatch of event_type invokes message_callback.
CallbackCalls(event_type) == IF event_type = "MESSAGE_CREATE" THEN 1 ELSE 0

\* The `except Exception` of lines 131-132 around the whole handler body.
HandlerCatches_Nothing(outcome) == FALSE
HandlerCatches(outcome) == outcome = "raised"

\* _on_message, op 0 (dispatch) of event_type arriving on socket s with a
\* sequence number. The peer acknowledges an identify with READY, a resume
\* with RESUMED, and sends MESSAGE_CREATE on an established session, for which
\* message_callback is invoked and ends as `outcome`. An exception the
\* handler did not catch would leave _on_message: "handler_raised".
OnDispatch(s, event_type, outcome) ==
    /\ sock[s] = "open"
    /\ \/ event_type = "READY" /\ hs[s] = "identify_sent" /\ outcome = "returned"
       \/ event_type = "RESUMED" /\ hs[s] = "resume_sent" /\ outcome = "returned"
       \/ event_type = "MESSAGE_CREATE" /\ hs[s] = "connected"
    /\ last_sequence' = IF event_type = "READY" THEN 1
                        ELSE Min(MaxSeq, last_sequence + 1)
    /\ session_id' = IF event_type = "READY" THEN TRUE ELSE session_id
    /\ reconnect_count' = IF ResetsReconnectCount(event_type) THEN 0
                          ELSE reconnect_count
    /\ hs' = [hs EXCEPT ![s] = "connected"]
    /\ since_connected' = IF event_type \in {"READY", "RESUMED"} THEN 0
                          ELSE since_connected
    /\ callback_calls' = CallbackCalls(event_type)
    /\ gw_event' = IF CallbackCalls(event_type) = 0 \/ outcome = "returned"
                   THEN event_type
                   ELSE IF HandlerCatches(outcome) THEN "callback_error"
                   ELSE "handler_raised"
    /\ UNCHANGED <<running, ws, sock, heartbeat_thread, timers, connecting,
                   last_delay>>
    /\ UNCHANGED <<mpVars, cbVars, exVars, restVars>>

\* _on_message, op 9 (invalid session) answering a handshake on socket s: no
\* branch of the handler matches it.
OnInvalidSession(s) ==
    /\ sock[s] = "open"
    /\ hs[s] \in {"identify_sent", "resume_sent"}
    /\ hs' = [hs EXCEPT ![s] = "invalid"]
    /\ gw_event' = "invalid_session"
    /\ UNCHANGED <<running, ws, sock, reconnect_count, session_id, last_sequence,
                   heartbeat_thread, timers, connecting, last_delay,
                   since_connected>>
    /\ callback_calls' = 0
    /\ UNCHANGED <<mpVars, cbVars, exVars, restVars>>

\* What self.ws.send does for a heartbeat on a connected socket.
SendOutcomes == {"sent", "raised"}

\* One pass of _heartbeat_loop: the loop condition of line 171, then the send
\* of line 177, which goes out or raises (the handler of lines 180-182 logs
\* and leaves the loop), or the exit from the loop. `ends` says whether the
\* thread, having left the loop, ends before any other thread takes a step.
HeartbeatLoop(outcome, ends) ==
    /\ heartbeat_thread = "loop"
    /\ IF running /\ ws # 0 /\ sock[ws] = "open"
       THEN IF outcome = "sent"
            THEN /\ gw_event' = "heartbeat"
                 /\ UNCHANGED heartbeat_thread
            ELSE /\ gw_event' = "heartbeat_failed"
                 /\ heartbeat_thread' = IF ends THEN "none" ELSE "done"
       ELSE /\ outcome = "sent"
            /\ gw_event' = "heartbeat_exit"
            /\ heartbeat_thread' = IF ends THEN "none" ELSE "done"
    /\ UNCHANGED <<running, ws, sock, reconnect_count, session_id, last_sequence,
                   timers, connecting, hs, last_delay, since_connected>>
    /\ callback_calls' = 0
    /\ UNCHANGED <<mpVars, cbVars, exVars, restVars>>

\* _heartbeat_loop has returned a while ago: the heartbeat thread ends.
HeartbeatThreadEnd ==
    /\ heartbeat_thread = "done"
    /\ heartbeat_thread' = "none"
    /\ gw_event' = "heartbeat_thread_end"
    /\ UNCHANGED <<running, ws, sock, reconnect_count, session_id, last_sequence,
                   timers, connecting, hs, last_delay, since_connected>>
    /\ callback_calls' = 0
    /\ UNCHANGED <<mpVars, cbVars, exVars, restVars>>

(***************************************************************************)
(* core/risk_guard.py: RiskGuardService                                    *)
(* Money is in whole dollars, fractions of the balance in 1/10000, time in *)
(* seconds, dates as day numbers.                                          *)
(***************************************************************************)
\* Largest day number and largest |daily_pnl| that are followed.
MaxDay == 1
MaxPnl == 5000
\* self.cooldown_period = timedelta(minutes=5)
cooldown_period == 300
\* The defaults of __init__ and the mock account of _get_account_info.
DefaultMaxPositionSize == 200
DefaultDailyLossLimit == 500
DefaultMaxOpenPositions == 5
MockBalance == 100000

Symbols == {"NQ", "ES"}
Directions == {"bull", "bear"}
Prices == {-1, 0, 100, 19656}
\* The alerts evaluated: every price and direction for one symbol, and one
\* alert for the other symbol.
Alerts ==
    [symbol : {"NQ"}, price : Prices, direction : Directions]
        \cup {[symbol |-> "ES", price |-> 100, direction |-> "bull"]}
\* What account_info_provider.get_account_info() answers: an account, or
\* nothing (it raised, or returned None).
AccountAnswers ==
    [ok : {TRUE}, balance : {0, MockBalance}, positions : {0, DefaultMaxOpenPositions}]
        \cup {[ok |-> FALSE, balance |-> 0, positions |-> 0]}
\* The instants at which something happens: the start, 30 s and 5 min later.
Instants == {0, 30, 300}
PnlChanges == {-5000, 5000}

\* The value None, and an OrderInfo, as evaluate_alert returns them.
NoOrder == [order |-> FALSE, symbol |-> "", action |-> "", quantity |-> 0, price |-> 0]
OrderInfo(symbol, action, quantity, price) ==
    [order |-> TRUE, symbol |-> symbol, action |-> action, quantity |-> quantity,
     price |-> price]

NoTrace == [branch |-> "none", alert |-> [symbol |-> "", price |-> 0, direction |-> ""],
            sized |-> FALSE, balance |-> 0, quantity |-> 0]

\* RiskGuardService(config), the config carrying no keys: the defaults.
RGIdle ==
    /\ max_position_size = DefaultMaxPositionSize
    /\ daily_loss_limit = DefaultDailyLossLimit
    /\ max_open_positions = DefaultMaxOpenPositions
    /\ has_provider = FALSE
    /\ blacklisted_symbols = {}
    /\ recent_trades = <<>>
    /\ daily_pnl = 0
    /\ daily_pnl_reset_day = 0
    /\ wall = 0
    /\ today = 0
    /\ rg_result = NoOrder
    /\ rg_trace = NoTrace

\* RiskGuardService(config, account_info_provider): limits and blacklist as
\* the config gives them (__init__ and _load_additional_config).
RGInit ==
    /\ max_position_size = DefaultMaxPositionSize
    /\ daily_loss_limit = DefaultDailyLossLimit
    /\ max_open_positions = DefaultMaxOpenPositions
    /\ has_provider \in BOOLEAN
    /\ blacklisted_symbols = {}
    /\ recent_trades = <<>>
    /\ daily_pnl = 0
    /\ daily_pnl_reset_day = 0
    /\ wall = 0
    /\ today = 0
    /\ rg_result = NoOrder
    /\ rg_trace = NoTrace

\* f"{alert.symbol}_{alert.direction}"
TradeKey(alert) == alert.symbol \o "_" \o alert.direction

\* The rollover test left out.
DailyResetDue_Never == FALSE
\* _check_daily_reset: `now.date() > self.daily_pnl_reset_time.date()`
DailyResetDue == today > daily_pnl_reset_day

\* The daily P&L an evaluate_alert call made now compares with the loss
\* limit: daily_pnl as _check_daily_reset (line 53) leaves it.
EffectivePnl == IF DailyResetDue THEN 0 ELSE daily_pnl

\* `alert.symbol in self.blacklisted_symbols`
IsBlacklisted_Never(alert) == FALSE
IsBlacklisted(alert) == alert.symbol \in blacklisted_symbols

\* Lines 62-64: the key is in recent_trades and less than the cooldown old.
InCooldown_Never(alert) == FALSE
InCooldown(alert) ==
    /\ TradeKey(alert) \in DOMAIN recent_trades
    /\ wall - recent_trades[TradeKey(alert)] < cooldown_period

\* _get_account_info: the provider's answer, or the mock account.
MockAccount == [ok |-> TRUE, balance |-> MockBalance, positions |-> 0]
AccountInfo(answer) == IF has_provider THEN answer ELSE MockAccount

\* `self.daily_pnl <= -1 * self.daily_loss_limit * account_info.balance`
DailyLossReached(pnl, account) == pnl * 10000 <= -1 * daily_loss_limit * account.balance

\* `current_positions >= self.max_open_positions`
TooManyPositions(account) == account.positions >= max_open_positions

\* int(x / y) for y > 0: the quotient truncated towards zero.
IntDiv(x, y) == IF x >= 0 THEN x \div y ELSE -((-x) \div y)

\* _calculate_position_size, its second result: 0 for a price <= 0, else
\* int(balance * max_position_size / price), raised to 1 when below 1.
CalculateQuantity_NoPriceGuard(alert, account) ==
    IF alert.price = 0 THEN 0
    ELSE LET p == IF alert.price < 0 THEN -alert.price ELSE alert.price
             q == IntDiv(account.balance * max_position_size, 10000 * p)
             quantity == IF alert.price < 0 THEN -q ELSE q
         IN  IF quantity < 1 THEN 1 ELSE quantity
CalculateQuantity(alert, account) ==
    IF alert.price <= 0 THEN 0
    ELSE LET quantity == IntDiv(account.balance * max_position_size, 10000 * alert.price)
         IN  IF quantity < 1 THEN 1 ELSE quantity

\* evaluate_alert(alert); `answer` is what the provider answers if asked.
EvaluateAlert(alert, answer) ==
    LET pnl == IF DailyResetDue THEN 0 ELSE daily_pnl
        account == AccountInfo(answer)
        quantity == CalculateQuantity(alert, account)
        action == IF alert.direction = "bull" THEN "BUY" ELSE "SELL_SHORT"
        branch ==
            IF IsBlacklisted(alert) THEN "blacklisted"
            ELSE IF InCooldown(alert) THEN "cooldown"
            ELSE IF ~account.ok THEN "no_account"
            ELSE IF DailyLossReached(pnl, account) THEN "daily_loss"
            ELSE IF TooManyPositions(account) THEN "max_positions"
            ELSE IF quantity <= 0 THEN "zero_quantity"
            ELSE "approved"
        sized == branch \in {"zero_quantity", "approved"}
        \* The call got an account and went on to the tests of lines 75-90.
        asked == branch \in {"daily_loss", "max_positions", "zero_quantity", "approved"}
    IN  /\ daily_pnl' = pnl
        /\ daily_pnl_reset_day' = IF DailyResetDue THEN today ELSE daily_pnl_reset_day
        /\ IF branch = "approved"
           THEN /\ rg_result' = OrderInfo(alert.symbol, action, quantity, alert.price)
                /\ recent_trades' =
                       [k \in DOMAIN recent_trades \cup {TradeKey(alert)} |->
                           IF k = TradeKey(alert) THEN wall ELSE recent_trades[k]]
           ELSE /\ rg_result' = NoOrder
                /\ UNCHANGED recent_trades
        /\ rg_trace' = [branch |-> branch, alert |-> alert, sized |-> sized,
                        balance |-> IF asked THEN account.balance ELSE 0,
                        quantity |-> IF sized THEN quantity ELSE 0]
        /\ UNCHANGED <<max_position_size, daily_loss_limit, max_open_positions,
                       has_provider, blacklisted_symbols, wall, today>>

\* add_to_blacklist(symbol)
AddToBlacklist(symbol) ==
    /\ blacklisted_symbols' = blacklisted_symbols \cup {symbol}
    /\ UNCHANGED <<max_position_size, daily_loss_limit, max_open_positions,
                   has_provider, recent_trades, daily_pnl, daily_pnl_reset_day,
                   wall, today, rg_result>>
    /\ rg_trace' = NoTrace

\* remove_from_blacklist(symbol)
RemoveFromBlacklist(symbol) ==
    /\ blacklisted_symbols' = blacklisted_symbols \ {symbol}
    /\ UNCHANGED <<max_position_size, daily_loss_limit, max_open_positions,
                   has_provider, recent_trades, daily_pnl, daily_pnl_reset_day,
                   wall, today, rg_result>>
    /\ rg_trace' = NoTrace

\* update_daily_pnl(pnl_change)
UpdateDailyPnl(pnl_change) ==
    /\ daily_pnl + pnl_change <= MaxPnl
    /\ daily_pnl + pnl_change >= -MaxPnl
    /\ daily_pnl' = daily_pnl + pnl_change
    /\ UNCHANGED <<max_position_size, daily_loss_limit, max_open_positions,
                   has_provider, blacklisted_symbols, recent_trades,
                   daily_pnl_reset_day, wall, today, rg_result>>
    /\ rg_trace' = NoTrace

\* Time passes: the clock reaches a later instant t.
AdvanceClock(t) ==
    /\ t > wall
    /\ wall' = t
    /\ UNCHANGED <<max_position_size, daily_loss_limit, max_open_positions,
                   has_provider, blacklisted_symbols, recent_trades, daily_pnl,
                   daily_pnl_reset_day, today, rg_result>>
    /\ rg_trace' = NoTrace

\* Midnight passes.
NextDay ==
    /\ today < MaxDay
    /\ today' = today + 1
    /\ UNCHANGED <<max_position_size, daily_loss_limit, max_open_positions,
                   has_provider, blacklisted_symbols, recent_trades, daily_pnl,
                   daily_pnl_reset_day, wall, rg_result>>
    /\ rg_trace' = NoTrace

\* The risk guard on its own: nothing else moves.
RGFrame == UNCHANGED <<mpVars, cbVars, exVars, gwVars, rtVars, orVars, lsVars>>

(***************************************************************************)
(* utils/retry.py: retry_with_backoff                                      *)
(* Delays are in tenths of a second before jitter, sleeps in milliseconds. *)
(***************************************************************************)
\* Largest max_retries a wrapper is made with.
MaxMaxRetries == 3
\* The defaults of retry_with_backoff, and the factor the executor passes.
DefaultMaxRetries == 3
backoff_factor == 2
initial_delay == 1
max_delay == 100
\* `exception_types = [Exception]` when none are given.
DefaultExceptionTypes == {"Exception"}
\* What func raises: both are subclasses of Exception.
Raisable == {"TransientError", "ValidationError"}
FuncOutcomes == {"ok"} \cup Raisable
\* 0.5 + random.random(), in percent: the ends and the middle of [0.5, 1.5).
JitterPercents == {50, 100, 149}

\* The wrapper retry_with_backoff makes with its defaults, not yet called.
RetryIdle ==
    /\ max_retries = DefaultMaxRetries
    /\ exception_types = DefaultExceptionTypes
    /\ jitter = TRUE
    /\ retries = 0
    /\ rt_pc = "idle"
    /\ rt_outcomes = <<>>
    /\ rt_sleeps = <<>>
    /\ rt_raised = ""

\* retry_with_backoff(max_retries, ..., jitter, exception_types)(func)
RetryInit ==
    /\ max_retries \in 0..MaxMaxRetries
    /\ exception_types \in {DefaultExceptionTypes, {"TransientError"}}
    /\ jitter \in BOOLEAN
    /\ retries = 0
    /\ rt_pc = "idle"
    /\ rt_outcomes = <<>>
    /\ rt_sleeps = <<>>
    /\ rt_raised = ""

\* `except tuple(exception_types)` catches exc.
IsDesignated(exc) == "Exception" \in exception_types \/ exc \in exception_types

\* `if retries > max_retries`
BudgetExhausted_AtLimit(count) == count >= max_retries
BudgetExhausted(count) == count > max_retries

\* min(delay * (backoff_factor ** (retries - 1)), max_delay)
CurrentDelay(count) == Min(initial_delay * backoff_factor ^ (count - 1), max_delay)

\* wrapper(*args): retries = 0, delay = initial_delay, the loop is entered.
RetryCall ==
    /\ rt_pc \in {"idle", "returned", "raised"}
    /\ rt_pc' = "calling"
    /\ retries' = 0
    /\ rt_outcomes' = <<>>
    /\ rt_sleeps' = <<>>
    /\ rt_raised' = ""
    /\ UNCHANGED <<max_retries, exception_types, jitter>>

\* One pass of the loop: func is invoked and returns or raises; the wrapper
\* returns, lets the exception out, or computes a delay and sleeps.
RetryAttempt(outcome, percent) ==
    /\ rt_pc = "calling"
    /\ jitter \/ percent = 100
    /\ rt_outcomes' = Append(rt_outcomes, outcome)
    /\ IF outcome = "ok"
       THEN /\ rt_pc' = "returned"
            /\ UNCHANGED <<retries, rt_sleeps, rt_raised>>
       ELSE IF IsDesignated(outcome)
       THEN /\ retries' = retries + 1
            /\ IF BudgetExhausted(retries + 1)
               THEN /\ rt_pc' = "raised"
                    /\ rt_raised' = outcome
                    /\ UNCHANGED rt_sleeps
               ELSE /\ rt_pc' = "sleeping"
                    /\ rt_sleeps' = Append(rt_sleeps, CurrentDelay(retries + 1) * percent)
                    /\ UNCHANGED rt_raised
       ELSE /\ rt_pc' = "raised"
            /\ rt_raised' = outcome
            /\ UNCHANGED <<retries, rt_sleeps>>
    /\ UNCHANGED <<max_retries, exception_types, jitter>>

\* time.sleep(current_delay) returns.
RetryWake ==
    /\ rt_pc = "sleeping"
    /\ rt_pc' = "calling"
    /\ UNCHANGED <<max_retries, exception_types, jitter, retries, rt_outcomes,
                   rt_sleeps, rt_raised>>

\* The wrapper on its own: nothing else moves.
RetryFrame == UNCHANGED <<mpVars, cbVars, exVars, gwVars, rgVars, orVars, lsVars>>

(***************************************************************************)
(* core/parser.py: ParserFactory with the standard parser                  *)
(* A message is the text the parser's patterns find in it.                 *)
(***************************************************************************)
Messages == [bias : {"", "Bullish"}, symbol : {"", "NQ"}, price : {"", "100.00", "19656.00"}]

\* float(price_match.group(1))
PriceValue(text) == IF text = "100.00" THEN 100 ELSE IF text = "19656.00" THEN 19656 ELSE 0

\* StandardAlertParser.can_parse
CanParse(message) == message.bias # "" /\ message.symbol # ""

NoAlert == [symbol |-> "", price |-> 0, direction |-> ""]

\* ParserFactory.parse_alert: None (NoAlert) when no parser takes the message
\* or the parser finds no price, else the AlertInfo.
ParseAlert(message) ==
    IF ~CanParse(message) \/ message.price = "" THEN NoAlert
    ELSE [symbol |-> message.symbol, price |-> PriceValue(message.price),
          direction |-> IF message.bias = "Bullish" THEN "bull" ELSE "bear"]

(***************************************************************************)
(* core/orchestrator.py: TradingOrchestrator.process_message               *)
(* The method as written, on the fields __init__ sets. The module itself   *)
(* imports core.executor (line 13), see ImportExecutor.                    *)
(***************************************************************************)
\* process_message calls that are followed.
MaxOrchCalls == 4
\* config.get('duplicate_window', 60)
duplicate_window == 60

\* The methods class CircuitBreaker defines.
CircuitBreakerMethods == {"__init__", "execute", "record_failure", "reset"}
\* `with obj:` needs both.
SupportsWith(methods) == {"__enter__", "__exit__"} \subseteq methods
\* `with self.circuit_breakers[...]:` enters its block.
WithEnters == SupportsWith(CircuitBreakerMethods)

\* log_with_context(logger, level, message, correlation_id=None, data=None)
\* as process_message calls it: log_with_context(logger.error, f"...",
\* correlation_id=..., [data=...]), two positional arguments.
LogRequired == {"logger", "level", "message"}
LogGiven == {"logger", "level", "correlation_id", "data"}
LogBinds == LogRequired \subseteq LogGiven

\* The attributes of what evaluate_alert returns (an OrderInfo; None has
\* none), and `risk_result.approved`.
OrderInfoFields == {"symbol", "action", "quantity", "order_type", "price", "stop_loss",
                    "take_profit", "strategy_id", "correlation_id", "risk_score",
                    "max_slippage", "time_in_force", "alert_timestamp"}
HasApproved == "approved" \in OrderInfoFields

\* What self.executor.execute_trade answers when there is one to call.
ExecAnswers == {"filled", "failed", "raised"}

ZeroStats == [alerts_received |-> 0, alerts_processed |-> 0, alerts_rejected |-> 0,
              alerts_failed |-> 0, orders_placed |-> 0, orders_filled |-> 0,
              orders_failed |-> 0]

NoCall == [message |-> [bias |-> "", symbol |-> "", price |-> ""], stage |-> "none",
           executes |-> 0, orders |-> <<>>]

\* TradingOrchestrator.__init__
OrchInit ==
    /\ stats = ZeroStats
    /\ processed_alerts = <<>>
    /\ correlation_ids = 0
    /\ or_result = "none"
    /\ or_trace = NoCall

\* hash(message): distinct contents are taken to have distinct hashes.
MessageHash(message) == message

\* Lines 138-140.
IsDuplicate(message) ==
    /\ MessageHash(message) \in DOMAIN processed_alerts
    /\ wall - processed_alerts[MessageHash(message)] < duplicate_window

Bump(st, field) == [st EXCEPT ![field] = @ + 1]

\* An `except Exception` handler of process_message: log_with_context, the
\* counter, return False. The TypeError of a call that does not bind leaves
\* process_message from inside the handler.
Handler(st, field) ==
    IF LogBinds THEN [stats |-> Bump(st, field), result |-> "False"]
    ELSE [stats |-> st, result |-> "TypeError"]

\* execute_trade's order for the alert, as the backend receives it.
BackendOrder(alert, quantity) ==
    [symbol |-> alert.symbol, quantity |-> quantity,
     action |-> IF alert.direction = "bull" THEN "BUY" ELSE "SELL"]

\* process_message(message). `answer` is what the account provider answers
\* and `exec_answer` what execute_trade does, where the call gets that far.
OrchProcessMessage(message, answer, exec_answer) ==
    LET st0 == Bump(stats, "alerts_received")
        alert == ParseAlert(message)
        \* Lines 146-171: the parse block.
        parse ==
            IF ~WithEnters THEN "raised"
            ELSE IF alert = NoAlert THEN "none" ELSE "parsed"
        \* Lines 174-179, outside any try.
        logged == parse = "parsed" /\ LogBinds
        toRisk == logged /\ WithEnters
    IN  /\ stats.alerts_received < MaxOrchCalls
        /\ correlation_ids' = correlation_ids + 1
        /\ IF toRisk THEN EvaluateAlert(alert, answer) ELSE UNCHANGED rgVars
        /\ LET approved == toRisk /\ HasApproved /\ rg_result'.order
               quantity == IF approved THEN rg_result'.quantity ELSE 0
               \* Lines 215-263: the execution block.
               callable == approved /\ WithEnters /\ exec_import = "loaded"
               end ==
                   IF IsDuplicate(message)
                   THEN [stage |-> "duplicate", stats |-> Bump(st0, "alerts_rejected"),
                         result |-> "False"]
                   ELSE IF parse = "raised"
                   THEN [stage |-> "parse_error"] @@ Handler(st0, "alerts_failed")
                   ELSE IF parse = "none"
                   THEN [stage |-> "parse_none", stats |-> Bump(st0, "alerts_failed"),
                         result |-> "False"]
                   ELSE IF ~logged
                   THEN [stage |-> "alert_log", stats |-> st0, result |-> "TypeError"]
                   ELSE IF ~HasApproved
                   THEN [stage |-> "risk_error"] @@ Handler(st0, "alerts_failed")
                   ELSE IF ~approved
                   THEN [stage |-> "risk_rejected"] @@ Handler(st0, "alerts_rejected")
                   ELSE IF ~callable \/ exec_answer = "raised"
                   THEN [stage |-> "exec_error"] @@ Handler(st0, "orders_failed")
                   ELSE IF ~LogBinds
                   THEN [stage |-> "exec_log"] @@ Handler(st0, "orders_failed")
                   ELSE IF exec_answer = "filled"
                   THEN [stage |-> "executed",
                         stats |-> Bump(Bump(Bump(st0, "orders_placed"), "orders_filled"),
                                        "alerts_processed"),
                         result |-> "True"]
                   ELSE [stage |-> "executed",
                         stats |-> Bump(Bump(st0, "orders_failed"), "alerts_processed"),
                         result |-> "False"]
               executes == IF callable /\ end.stage \in {"exec_error", "exec_log", "executed"}
                           THEN 1 ELSE 0
           IN  /\ stats' = end.stats
               /\ or_result' = end.result
               /\ or_trace' = [message |-> message, stage |-> end.stage,
                               executes |-> executes,
                               orders |-> IF executes = 1 /\ exec_answer # "raised"
                                          THEN <<BackendOrder(alert, quantity)>>
                                          ELSE <<>>]
               \* Line 249, reached only when the execution block ran through.
               /\ processed_alerts' =
                      IF end.stage = "executed"
                      THEN [h \in DOMAIN processed_alerts \cup {MessageHash(message)} |->
                               IF h = MessageHash(message) THEN wall
                               ELSE processed_alerts[h]]
                      ELSE processed_alerts

\* The orchestrator and its risk guard; nothing else moves.
OrchFrame == UNCHANGED <<mpVars, cbVars, exVars, gwVars, rtVars, lsVars>>

(***************************************************************************)
(* core/listener.py: DiscordListener                                       *)
(***************************************************************************)
\* Largest message_throttle tried, and largest message_count followed.
MaxThrottle == 3
MaxMessageCount == 5
\* message_throttle=100 of __init__
DefaultMessageThrottle == 100

\* DiscordListener.__init__, for any message_throttle within the bound. 0
\* also stands for the 0.5 the orchestrator passes by default
\* (orchestrator.py:88): a whole count exceeds both from 1 on.
ListenerInit ==
    /\ message_throttle \in 0..MaxThrottle
    /\ message_count = 0
    /\ message_pattern = FALSE
    /\ ls_event = "none"

\* The listener nobody delivers to, for the specifications of the other
\* components.
ListenerIdle ==
    /\ message_throttle = DefaultMessageThrottle
    /\ message_count = 0
    /\ message_pattern = FALSE
    /\ ls_event = "none"

\* The throttle left out.
Throttled_Never(count) == FALSE
\* `if self.message_count > self.message_throttle`
Throttled(count) == count > message_throttle

\* on_message(message): `own` says the author is the listener's own user,
\* `monitored` that the channel is one of channel_ids, `matches` that
\* message_pattern is found in the content, `outcome` how message_callback
\* ends if it is called.
OnMessage(own, monitored, matches, outcome) ==
    LET counted == ~own /\ monitored
        count == IF counted THEN message_count + 1 ELSE message_count
    IN  /\ message_count < MaxMessageCount
        /\ message_count' = count
        /\ ls_event' =
               IF own THEN "own"
               ELSE IF ~monitored THEN "unmonitored"
               ELSE IF Throttled(count) THEN "throttled"
               ELSE IF message_pattern /\ ~matches THEN "filtered"
               ELSE IF outcome = "raised" THEN "callback_error"
               ELSE "forwarded"
        /\ UNCHANGED <<message_throttle, message_pattern>>
        /\ UNCHANGED <<mpVars, cbVars, exVars, gwVars, rgVars, rtVars, orVars>>

\* What set_message_filter is given: nothing, a pattern that compiles, one
\* that does not.
FilterArguments == {"none", "valid", "invalid"}

\* set_message_filter(pattern)
SetMessageFilter(pattern) ==
    /\ message_pattern' = (pattern = "valid")
    /\ ls_event' = "set_filter"
    /\ UNCHANGED <<message_throttle, message_count>>
    /\ UNCHANGED <<mpVars, cbVars, exVars, gwVars, rgVars, rtVars, orVars>>

(***************************************************************************)
(* Specifications                                                          *)
(***************************************************************************)
\* MessageProcessor
Init == MPInit /\ CBIdle /\ ExecInit /\ GWInit /\ RGIdle /\ RetryIdle /\ OrchInit /\ ListenerIdle
Next ==
    \/ \E id \in Ids, monitored \in BOOLEAN, signal \in BOOLEAN :
           ProcessMessage(id, monitored, signal)
    \/ \E held \in BOOLEAN, monitored \in BOOLEAN, signal \in BOOLEAN :
           ProcessMessageOther(held, monitored, signal)
Spec == Init /\ [][Next]_vars

\* CircuitBreaker, one caller at a time (the dispatch thread)
CBSpecInit == MPInit /\ CBInit /\ ExecInit /\ GWInit /\ RGIdle /\ RetryIdle /\ OrchInit /\ ListenerIdle
CBNext ==
    \/ \E t \in Callers : SerialCallBegin(t)
    \/ \E t \in Callers : Enter(t)
    \/ \E t \in Callers : FuncReturn(t)
    \/ \E t \in Callers : FuncRaise(t)
    \/ Tick
CBSpec == CBSpecInit /\ [][CBNext]_vars

\* CircuitBreaker, callers on several threads
CBConcNext ==
    \/ \E t \in Callers : CallBegin(t)
    \/ \E t \in Callers : Enter(t)
    \/ \E t \in Callers : FuncReturn(t)
    \/ \E t \in Callers : FuncRaise(t)
    \/ Tick
CBConcSpec == CBSpecInit /\ [][CBConcNext]_vars

\* ExecutionService
ExecNext ==
    \/ ImportExecutor
    \/ \E mode \in BackendModes : HostExecuteTrade(mode)
    \/ Tick
ExecSpec == Init /\ [][ExecNext]_vars

\* DiscordGateway; its heartbeat thread, once out of the loop, ends at once
GWNext ==
    \/ Start
    \/ Stop
    \/ \E ok \in BOOLEAN : ConnectFinish(ok)
    \/ TimerFire
    \/ \E s \in Sockets : PeerClose(s)
    \/ \E s \in Sockets : OnClose(s)
    \/ \E s \in Sockets : OnHello(s)
    \/ \E s \in Sockets, e \in {"READY", "RESUMED", "MESSAGE_CREATE"},
          outcome \in CallbackOutcomes : OnDispatch(s, e, outcome)
    \/ \E s \in Sockets : OnInvalidSession(s)
    \/ \E outcome \in SendOutcomes : HeartbeatLoop(outcome, TRUE)
GWSpec == Init /\ [][GWNext]_vars

\* DiscordGateway started once and kept running, every connect() succeeding:
\* the receive handler against whatever the peer sends or closes, with the
\* end of the heartbeat thread interleaved with the steps of the other threads.
GWRecvNext ==
    \/ Start
    \/ \E ok \in {TRUE} : ConnectFinish(ok)
    \/ TimerFire
    \/ \E s \in Sockets : PeerClose(s)
    \/ \E s \in Sockets : OnClose(s)
    \/ \E s \in Sockets : OnHello(s)
    \/ \E s \in Sockets, e \in {"READY", "RESUMED", "MESSAGE_CREATE"},
          outcome \in CallbackOutcomes : OnDispatch(s, e, outcome)
    \/ \E s \in Sockets : OnInvalidSession(s)
    \/ \E outcome \in SendOutcomes, ends \in BOOLEAN : HeartbeatLoop(outcome, ends)
    \/ HeartbeatThreadEnd
GWRecvSpec == Init /\ [][GWRecvNext]_vars

\* RiskGuardService
RGSpecInit == MPInit /\ CBIdle /\ ExecInit /\ GWInit /\ RGInit /\ RetryIdle /\ OrchInit /\ ListenerIdle
RGEvaluate ==
    \E alert \in Alerts, answer \in (IF has_provider THEN AccountAnswers ELSE {MockAccount}) :
        EvaluateAlert(alert, answer) /\ RGFrame
RGAdd == \E symbol \in Symbols : AddToBlacklist(symbol) /\ RGFrame
RGRemove == \E symbol \in Symbols : RemoveFromBlacklist(symbol) /\ RGFrame
RGUpdatePnl == \E c \in PnlChanges : UpdateDailyPnl(c) /\ RGFrame
RGAdvance == \E t \in Instants : AdvanceClock(t) /\ RGFrame
RGNextDay == NextDay /\ RGFrame
RGNext ==
    \/ RGEvaluate
    \/ RGAdd
    \/ RGRemove
    \/ RGUpdatePnl
    \/ RGAdvance
    \/ RGNextDay
RGSpec == RGSpecInit /\ [][RGNext]_vars

\* retry_with_backoff
RetrySpecInit ==
    MPInit /\ CBIdle /\ ExecInit /\ GWInit /\ RGIdle /\ RetryInit /\ OrchInit /\ ListenerIdle
RetryNext ==
    \/ RetryCall /\ RetryFrame
    \/ \E outcome \in FuncOutcomes, percent \in JitterPercents :
           RetryAttempt(outcome, percent) /\ RetryFrame
    \/ RetryWake /\ RetryFrame
RetrySpec == RetrySpecInit /\ [][RetryNext]_vars

\* TradingOrchestrator
OrchCall ==
    \E message \in Messages, exec_answer \in ExecAnswers :
        OrchProcessMessage(message, MockAccount, exec_answer) /\ OrchFrame
OrchAdvance == \E t \in Instants : AdvanceClock(t) /\ UNCHANGED orVars /\ OrchFrame
OrchNext ==
    \/ OrchCall
    \/ OrchAdvance
OrchSpec == Init /\ [][OrchNext]_vars

\* DiscordListener
ListenerSpecInit ==
    MPInit /\ CBIdle /\ ExecInit /\ GWInit /\ RGIdle /\ RetryIdle /\ OrchInit /\ ListenerInit
ListenerNext ==
    \/ \E own \in BOOLEAN, monitored \in BOOLEAN, matches \in BOOLEAN,
          outcome \in CallbackOutcomes :
           OnMessage(own, monitored, matches, outcome)
    \/ \E pattern \in FilterArguments : SetMessageFilter(pattern)
ListenerSpec == ListenerSpecInit /\ [][ListenerNext]_vars


(***************************************************************************)
(* Claims                                                                  *)
(***************************************************************************)
\* C1 (as claimed): over any sequence of deliveries an id is forwarded to
\* signal_callback at most once.
C1_ForwardedAtMostOnce == \A i \in Ids : forwarded[i] <= 1

\* C1 (amended): a delivery whose id processed_message_ids holds at that
\* moment is dropped before signal detection: it is not forwarded. (An id the
\* capacity policy has evicted is no longer held and can be forwarded again.)
C1_HeldIdNotForwarded ==
    [][\A i \in Ids : i \in processed_tracked => forwarded'[i] = forwarded[i]]_vars

\* A held id that was forwarded once has been delivered again and dropped.
C1_Witness ==
    /\ mp_event.kind = "duplicate"
    /\ mp_event.id \in processed_tracked
    /\ forwarded[mp_event.id] = 1

CallEvents == {"reject_open", "reject_half_open", "admit"}

\* C2: once failure_threshold calls in a row have failed the circuit is OPEN
\* for as long as reset_timeout has not elapsed since the last recorded
\* failure, and every call made in that time is rejected with the
\* circuit-open error without entering the protected function.
C2_OpenRejectsUntilTimeout ==
    [][(consec_fail >= failure_threshold /\ now - last_failure_time < reset_timeout)
         => /\ state = "OPEN"
            /\ cb_event' \in CallEvents => (cb_event' = "reject_open" /\ pc' = pc)]_vars

\* A call was rejected after two or more failures in a row opened the circuit.
C2_Witness ==
    /\ cb_event = "reject_open"
    /\ failure_threshold >= 2
    /\ consec_fail >= failure_threshold
    /\ now - last_failure_time < reset_timeout

\* C3 (as claimed): a CLOSED circuit goes OPEN only when failure_threshold
\* calls in a row have failed.
C3_OpensOnlyAfterConsecutive ==
    [][(state = "CLOSED" /\ state' = "OPEN") => consec_fail' >= failure_threshold]_vars

\* C4: once reset_timeout has elapsed the next call to an OPEN circuit is
\* admitted as a trial in HALF_OPEN; before that it is rejected; a trial that
\* raises reopens the circuit and restarts the timeout from that failure; a
\* trial that returns closes the circuit with failure_count = 0.
C4_TrialProtocol ==
    [][/\ (state = "OPEN" /\ ResetTimeoutElapsed /\ cb_event' \in CallEvents)
            => (cb_event' = "admit" /\ state' = "HALF_OPEN")
       /\ (state = "OPEN" /\ ~ResetTimeoutElapsed /\ cb_event' \in CallEvents)
            => (cb_event' = "reject_open" /\ state' = "OPEN")
       /\ (state = "HALF_OPEN" /\ cb_event' = "failure")
            => (state' = "OPEN" /\ last_failure_time' = now /\ ~ResetTimeoutElapsed')
       /\ (state = "HALF_OPEN" /\ cb_event' = "success")
            => (state' = "CLOSED" /\ failure_count' = 0)]_vars

\* A trial has failed and reopened the circuit, after the failures that
\* opened it the first time.
C4_Witness ==
    /\ cb_event = "failure"
    /\ state = "OPEN"
    /\ trials = 1
    /\ failure_count > failure_threshold
    /\ last_failure_time >= reset_timeout

Inflight == Cardinality({ t \in Callers : pc[t] # "idle" })

\* C5 (as claimed): while the circuit is HALF_OPEN no more than
\* half_open_max_calls calls are admitted, for every interleaving of callers.
C5_HalfOpenTrialsWithinMax == state = "HALF_OPEN" => trials <= half_open_max_calls

\* C5 (amended): when calls do not overlap (at most one caller inside
\* execute), exactly one call is admitted while the circuit is HALF_OPEN,
\* whatever half_open_max_calls is: the first trial's outcome closes or
\* reopens the circuit.
C5_SerialTrialIsSingle ==
    (state = "HALF_OPEN" /\ Inflight <= 1)
        => (trials = 1 /\ Inflight = 1 /\ half_open_count <= 1)

\* The single trial is running in a breaker that allows two.
C5_Witness ==
    /\ state = "HALF_OPEN"
    /\ half_open_max_calls = 2
    /\ Inflight = 1
    /\ half_open_count = 1

BackendFailed(e) == e.backend \in {"returns_failed", "raises"}

\* C6 (as claimed): after failure_threshold = 3 attempts in a row on which the
\* backend failed, the next execute_trade attempt made within reset_timeout
\* ends with the circuit-open error and without invoking broker.place_order.
C6_FourthCallCircuitOpen ==
    \A i \in 1..Len(exec_log) :
        ( /\ i > ExecFailureThreshold
          /\ \A j \in (i - ExecFailureThreshold)..(i - 1) : BackendFailed(exec_log[j])
          /\ exec_log[i].at - exec_log[i - 1].at < ExecResetTimeout )
        => (exec_log[i].outcome = "circuit_open" /\ exec_log[i].orders = 0)

ScheduleEvents == {"close_scheduled", "fail_scheduled"}
ReconnectCauses == {"close_scheduled", "close_exhausted", "close_stopped",
                    "fail_scheduled", "fail_exhausted", "fail_stopped"}

\* C7 (as claimed): while the gateway is stopped, connect() is not entered
\* and no socket is opened.
C7_NoConnectAfterStop ==
    [][(~running /\ ~running') => gw_event' \notin {"timer_connect", "socket_opened"}]_vars

\* C8 (as claimed): the Nth reconnect scheduled since the last CONNECTED
\* requests a delay of min(30, 2^N), and each scheduling increases
\* reconnect_count by one.
C8_BackoffSinceConnected ==
    [][gw_event' \in ScheduleEvents
         => /\ last_delay' = Min(DelayCap, DelayBase ^ since_connected')
            /\ reconnect_count' = reconnect_count + 1]_vars

\* C9 (as claimed): whenever a socket reaches CONNECTED (a ready frame after
\* an identify, or a session-ack after a resume) reconnect_count is zero.
C9_ConnectedResetsCounter ==
    [][\A s \in Sockets : (hs[s] # "connected" /\ hs'[s] = "connected")
                              => reconnect_count' = 0]_vars

\* C10 (as claimed): when a socket closes or a connect attempt fails while
\* the gateway is running, a reconnect timer is started if and only if fewer
\* than reconnect_max have been started since the last CONNECTED.
C10_ReconnectWithinBudget ==
    [][(running /\ gw_event' \in ReconnectCauses)
         => ((timers' = timers + 1) <=> (since_connected < reconnect_max))]_vars

ExhaustedEvents == {"close_exhausted", "fail_exhausted"}

\* C11 (as claimed): the step in which _schedule_reconnect finds the budget
\* exhausted leaves the host something to observe besides the budget counter
\* itself: the gateway stops counting as running, or the step hands the host
\* a callback. (The only callback the gateway holds, message_callback, is
\* invoked for MESSAGE_CREATE dispatches alone.)
C11_ExhaustionSurfaced ==
    [][gw_event' \in ExhaustedEvents
         => (~running' \/ gw_event' = "MESSAGE_CREATE")]_vars

\* An evaluate_alert call has just returned.
Evaluated == rg_trace.branch # "none"

\* C14: an alert whose price is <= 0 is rejected (evaluate_alert returns no
\* order), and where the call got as far as sizing the position the quantity
\* it computed is 0; this for every account answer, blacklist, P&L and
\* cooldown state.
C14_NonPositivePriceRejected ==
    (Evaluated /\ rg_trace.alert.price <= 0)
        => (~rg_result.order /\ (rg_trace.sized => rg_trace.quantity = 0))

\* A negative price got as far as the sizing and was rejected there.
C14_Witness ==
    /\ rg_trace.branch = "zero_quantity"
    /\ rg_trace.alert.price < 0
    /\ ~rg_result.order

RiskState == <<max_position_size, daily_loss_limit, max_open_positions,
               blacklisted_symbols, recent_trades, daily_pnl, daily_pnl_reset_day>>

\* C15 (as claimed): evaluate_alert on a symbol that is in the blacklist
\* returns no order and changes nothing of the risk guard's state.
C15_BlacklistedRejectedNoChange ==
    [][(rg_trace'.branch # "none" /\ rg_trace'.alert.symbol \in blacklisted_symbols)
         => (~rg_result'.order /\ RiskState' = RiskState)]_vars

\* C15 (amended): evaluate_alert on a symbol that is in the blacklist returns
\* no order and leaves the blacklist, the limits and the cooldown table as
\* they were; the daily P&L changes only by the reset that is due when the
\* date has passed that of the last reset.
C15_BlacklistedRejected ==
    [][(rg_trace'.branch # "none" /\ rg_trace'.alert.symbol \in blacklisted_symbols)
         => /\ ~rg_result'.order
            /\ UNCHANGED <<max_position_size, daily_loss_limit, max_open_positions,
                           blacklisted_symbols, recent_trades>>
            /\ IF today > daily_pnl_reset_day
               THEN daily_pnl' = 0 /\ daily_pnl_reset_day' = today
               ELSE UNCHANGED <<daily_pnl, daily_pnl_reset_day>>]_vars

\* A blacklisted symbol was rejected for an alert that every other test
\* would have let through (price > 0, no cooldown, no loss).
C15_Witness ==
    /\ rg_trace.branch = "blacklisted"
    /\ rg_trace.alert.price = 100
    /\ rg_trace.alert.symbol \in blacklisted_symbols
    /\ TradeKey(rg_trace.alert) \notin DOMAIN recent_trades
    /\ daily_pnl = 0
    /\ ~rg_result.order

\* C16 (as claimed): with a balance of 100000 and max_position_size = 0.02
\* an alert priced 19656 that gets to the sizing is given quantity 0 and is
\* rejected.
C16_ScenarioA ==
    ( /\ rg_trace.sized
      /\ rg_trace.alert.price = 19656
      /\ rg_trace.balance = MockBalance
      /\ max_position_size = DefaultMaxPositionSize )
        => (rg_trace.quantity = 0 /\ ~rg_result.order)

\* Every invocation of func in the call so far raised a designated exception.
AllRetryable ==
    /\ rt_outcomes # <<>>
    /\ \A i \in 1..Len(rt_outcomes) : rt_outcomes[i] # "ok" /\ IsDesignated(rt_outcomes[i])

\* C18 (as claimed): a wrapper made with max_retries >= 1 invokes func at most
\* max_retries times in one call.
C18_AtMostMaxRetriesInvocations ==
    max_retries >= 1 => Len(rt_outcomes) <= max_retries

\* C18 (amended): a call invokes func at most max_retries + 1 times (the
\* first attempt and max_retries retries); when every invocation raises a
\* designated exception the call ends after exactly max_retries + 1
\* invocations and max_retries sleeps by letting the last exception out.
C18_AtMostMaxRetriesPlusOne ==
    /\ Len(rt_outcomes) <= max_retries + 1
    /\ Len(rt_sleeps) <= max_retries
    /\ (AllRetryable /\ rt_pc # "sleeping" /\ rt_pc # "calling")
         => /\ rt_pc = "raised"
            /\ Len(rt_outcomes) = max_retries + 1
            /\ Len(rt_sleeps) = max_retries
            /\ rt_raised = rt_outcomes[Len(rt_outcomes)]

\* The default wrapper gave up after four failing invocations.
C18_Witness ==
    /\ max_retries = DefaultMaxRetries
    /\ AllRetryable
    /\ rt_pc = "raised"
    /\ Len(rt_outcomes) = DefaultMaxRetries + 1

\* C19 (as claimed): a validation error raised by the first invocation leaves
\* the wrapper at once (one invocation, no sleep) whenever its type is not
\* designated, and in particular in the wrapper execute_trade is given
\* (max_retries = 3, jitter, no exception_types).
C19_NonRetryablePropagates ==
    ( /\ rt_outcomes # <<>>
      /\ rt_outcomes[1] = "ValidationError"
      /\ \/ ~IsDesignated("ValidationError")
         \/ ( /\ max_retries = DefaultMaxRetries
              /\ jitter
              /\ exception_types = DefaultExceptionTypes ) )
        => (rt_pc = "raised" /\ Len(rt_outcomes) = 1 /\ rt_sleeps = <<>>)

\* C13 (as claimed): every process_message call ends by returning True or
\* False; no exception leaves it.
C13_AlwaysReturnsBoolean == or_result \in {"none", "True", "False"}

\* The text of scenario B: a bullish alert for NQ priced 100.00.
ScenarioB == [bias |-> "Bullish", symbol |-> "NQ", price |-> "100.00"]

\* C17 (as claimed): the first process_message call, made with the text of
\* scenario B on the mock account of 100000 and max_position_size = 0.02, is
\* approved by the risk guard with quantity 20, and the execution backend
\* receives from it exactly one order, for 20 shares, side buy.
C17_ScenarioB ==
    ( /\ or_trace.stage # "none"
      /\ or_trace.message = ScenarioB
      /\ stats.alerts_received = 1
      /\ max_position_size = DefaultMaxPositionSize )
        => /\ rg_result.order
           /\ rg_result.quantity = 20
           /\ or_trace.orders = <<[symbol |-> "NQ", quantity |-> 20, action |-> "BUY"]>>

\* C20 (as claimed): an execute_trade attempt during which broker.place_order
\* raises ends with a failed OrderResult handed to the caller, after the
\* backend was called at least once and at most as often as the retry limit
\* allows.
C20_RetriedThenFailedResult ==
    \A i \in 1..Len(exec_log) :
        exec_log[i].backend = "raises"
            => /\ exec_log[i].outcome = "failed_result"
               /\ exec_log[i].orders >= 1
               /\ exec_log[i].orders <= DefaultMaxRetries + 1

\* C21 (as claimed): an execute_trade attempt made while the service is not
\* connected and broker.connect() fails ends at once with a failed OrderResult
\* handed to the caller, and broker.place_order is not invoked.
C21_NotConnectedReturnsFailedResult ==
    \A i \in 1..Len(exec_log) :
        exec_log[i].backend = "cannot_connect"
            => /\ exec_log[i].outcome = "failed_result"
               /\ exec_log[i].orders = 0

\* C22 (as claimed): a process_message call that is not a duplicate returns
\* False and counts its cause: alerts_failed + 1 (alerts_rejected untouched)
\* when no parser yields an alert from the message, alerts_rejected + 1
\* (alerts_failed untouched) when the message parses to an alert the risk
\* guard declines, here one whose pair is inside its cooldown.
C22_FailuresCountedByCause ==
    [][( /\ stats'.alerts_received = stats.alerts_received + 1
         /\ ~IsDuplicate(or_trace'.message) )
        => LET alert == ParseAlert(or_trace'.message)
           IN  /\ alert = NoAlert
                    => /\ or_result' = "False"
                       /\ stats'.alerts_failed = stats.alerts_failed + 1
                       /\ stats'.alerts_rejected = stats.alerts_rejected
               /\ (alert # NoAlert /\ InCooldown(alert))
                    => /\ or_result' = "False"
                       /\ stats'.alerts_rejected = stats.alerts_rejected + 1
                       /\ stats'.alerts_failed = stats.alerts_failed]_vars

\* C23: evaluate_alert approves an alert only if recent_trades holds no time
\* for its (symbol, direction) pair that is less than cooldown_period before
\* now; an approval records now for that pair and leaves the other pairs
\* alone; a rejected evaluation, like every other operation, leaves
\* recent_trades unchanged. recent_trades therefore holds the time of the
\* last approval of each pair, and two approvals of one pair are never less
\* than cooldown_period apart.
C23_CooldownBetweenApprovals ==
    [][IF rg_trace'.branch = "approved"
       THEN LET k == TradeKey(rg_trace'.alert)
            IN  /\ k \in DOMAIN recent_trades
                     => wall - recent_trades[k] >= cooldown_period
                /\ DOMAIN recent_trades' = DOMAIN recent_trades \cup {k}
                /\ recent_trades'[k] = wall
                /\ \A j \in DOMAIN recent_trades \ {k} :
                       recent_trades'[j] = recent_trades[j]
       ELSE recent_trades' = recent_trades]_vars

\* An alert for a pair approved 30 seconds earlier has been rejected for its
\* cooldown, and the table still holds the time of that approval.
C23_Witness ==
    /\ rg_trace.branch = "cooldown"
    /\ wall = 30
    /\ TradeKey(rg_trace.alert) \in DOMAIN recent_trades
    /\ recent_trades[TradeKey(rg_trace.alert)] = 0

\* len(self.processed_message_ids)
MPSize == Cardinality(processed_tracked) + processed_other

\* C24: processed_message_ids never holds more than 1000 ids once a
\* process_message call has returned; a call that adds an id to a set of
\* 1000 evicts exactly 500 ids before it returns, and a call that adds an id
\* to a smaller set evicts none.
C24_SeenIdsCapped ==
    /\ [](MPSize <= MaxProcessed)
    /\ [][mp_event'.kind \in {"forwarded", "no_signal"}
            => MPSize' = IF MPSize + 1 > MaxProcessed
                         THEN MPSize + 1 - EvictCount
                         ELSE MPSize + 1]_vars

\* The call that added the 1001st id has just evicted 500 ids, the tracked
\* id among them (it was forwarded once and is no longer held).
C24_Witness ==
    /\ mp_event.kind \in {"forwarded", "no_signal"}
    /\ MPSize = MaxProcessed + 1 - EvictCount
    /\ processed_tracked = {}
    /\ forwarded[1] = 1

\* Nothing of the gateway is pending: no timer, no thread inside connect(),
\* no socket whose _on_close is still to run, no heartbeat thread.
GWQuiescent ==
    /\ timers = 0
    /\ connecting = 0
    /\ heartbeat_thread = "none"
    /\ \A s \in Sockets : sock[s] # "closing"

\* C25 (as claimed): while the gateway is stopped no heartbeat is sent, and
\* once the stopped gateway has nothing pending any more, no socket it opened
\* is still open.
C25_StopEndsHeartbeatAndSockets ==
    /\ [][(~running /\ ~running') => gw_event' # "heartbeat"]_vars
    /\ []((~running /\ GWQuiescent) => \A s \in Sockets : sock[s] # "open")

HelloEvents == {"identify", "resume", "handshake_lost"}

\* C26 (as claimed): when a running gateway has processed a hello, a heartbeat
\* thread is inside its loop, whatever the thread of the previous connection
\* was doing when the hello arrived.
C26_HelloLeavesHeartbeatRunning ==
    [][(running /\ gw_event' \in HelloEvents) => heartbeat_thread' = "loop"]_vars

\* C27 (as claimed): the step in which a heartbeat send fails calls
\* _schedule_reconnect: reconnect_count goes up.
C27_HeartbeatFailureSchedulesReconnect ==
    [][gw_event' = "heartbeat_failed" => reconnect_count' = reconnect_count + 1]_vars

\* C28 (as claimed): the step that processes an invalid-session frame
\* answering a resume clears session_id, so that the next hello is answered
\* with an identify.
C28_InvalidSessionClearsIdentity ==
    [][\A s \in Sockets :
          (gw_event' = "invalid_session" /\ hs[s] = "resume_sent" /\ hs'[s] = "invalid")
              => (~session_id' /\ ~ShouldResume')]_vars

\* C29 (as claimed): the step that processes the hello of a connection leaves
\* that connection with its handshake frame sent: a resume if the gateway
\* holds a session_id (set by READY) and a last_sequence, else an identify.
C29_HelloAnsweredOnItsConnection ==
    [][gw_event' \in HelloEvents
         => \A s \in Sockets :
                (hs[s] = "none" /\ hs'[s] # "none")
                    => hs'[s] = IF ShouldResume THEN "resume_sent" ELSE "identify_sent"]_vars

\* C30: a step invokes message_callback once if it handles a MESSAGE_CREATE
\* dispatch and not at all otherwise; no exception of the callback leaves
\* _on_message; and the step in which the callback raised leaves the gateway
\* and the connection as a returning callback does, so that the frames that
\* follow are handled as before.
C30_CallbackOncePerMessage ==
    /\ [](gw_event # "handler_raised")
    /\ [][callback_calls' = IF gw_event' \in {"MESSAGE_CREATE", "callback_error"}
                            THEN 1 ELSE 0]_gwVars
    /\ [][gw_event' = "callback_error"
            => /\ \E s \in Sockets : sock[s] = "open" /\ hs[s] = "connected"
               /\ <<running, ws, sock, hs, session_id, reconnect_count,
                    heartbeat_thread, timers, connecting>>'
                  = <<running, ws, sock, hs, session_id, reconnect_count,
                      heartbeat_thread, timers, connecting>>]_vars

\* The callback has just raised on the connection of a running gateway,
\* which is still open and established.
C30_Witness ==
    /\ gw_event = "callback_error"
    /\ callback_calls = 1
    /\ running
    /\ ws # 0
    /\ sock[ws] = "open"
    /\ hs[ws] = "connected"

\* The evaluate_alert call that has just returned had an account and went on
\* to the daily-loss test.
LossTested ==
    rg_trace.branch \in {"daily_loss", "max_positions", "zero_quantity", "approved"}

\* C31 (as claimed): where an alert priced above 0 gets to the sizing, the
\* quantity is floor(balance * max_position_size / price), raised to 1 when
\* the dollar risk balance * max_position_size is above 0; with a dollar risk
\* of 0 or less the quantity is 0 or less and the alert is rejected.
C31_QuantityFromDollarRisk ==
    (rg_trace.sized /\ rg_trace.alert.price > 0)
        => LET risk == rg_trace.balance * max_position_size
               floor == risk \div (10000 * rg_trace.alert.price)
           IN  IF risk > 0
               THEN rg_trace.quantity = (IF floor < 1 THEN 1 ELSE floor)
               ELSE rg_trace.quantity <= 0 /\ ~rg_result.order

\* C32 (as claimed): the daily-loss test rejects exactly when daily_pnl is
\* below -daily_loss_limit * balance; an account exactly at the limit passes
\* it.
C32_LossTestStrictlyBelow ==
    LossTested
        => (rg_trace.branch = "daily_loss"
              <=> daily_pnl * 10000 < -1 * daily_loss_limit * rg_trace.balance)

\* C33 (as claimed): a change applied by update_daily_pnl is part of the
\* daily P&L the next evaluation compares with the loss limit, whatever
\* preceded the call; and an evaluation is rejected for the blacklist exactly
\* when its symbol is in the blacklist as the mutators left it.
C33_MutatorsGovernNextEvaluation ==
    /\ [][(rg_trace'.branch = "none" /\ daily_pnl' # daily_pnl)
            => EffectivePnl' = EffectivePnl + (daily_pnl' - daily_pnl)]_vars
    /\ [][rg_trace'.branch # "none"
            => (rg_trace'.branch = "blacklisted"
                  <=> rg_trace'.alert.symbol \in blacklisted_symbols)]_vars

\* C34: an evaluate_alert call made on a date later than that of the last
\* reset sets daily_pnl to 0 and takes the date, before its loss test, which
\* then rejects only if 0 itself reaches the limit; a call made on the date
\* of the last reset leaves daily_pnl as it was; and no other operation moves
\* the date of the last reset.
C34_LazyDailyReset ==
    [][IF rg_trace'.branch # "none"
       THEN IF today > daily_pnl_reset_day
            THEN /\ daily_pnl' = 0
                 /\ daily_pnl_reset_day' = today
                 /\ rg_trace'.branch = "daily_loss"
                      => daily_loss_limit * rg_trace'.balance <= 0
            ELSE /\ daily_pnl' = daily_pnl
                 /\ daily_pnl_reset_day' = daily_pnl_reset_day
       ELSE daily_pnl_reset_day' = daily_pnl_reset_day]_vars

\* An evaluation made after midnight has reset the daily P&L and approved an
\* alert on the mock account.
C34_Witness ==
    /\ rg_trace.branch = "approved"
    /\ today = 1
    /\ daily_pnl_reset_day = 1
    /\ daily_pnl = 0
    /\ ~has_provider

\* C36 (as claimed): the correlation-id set, the duplicate-alert cache and
\* the cooldown table stay below a bound that does not grow with the number
\* of process_message calls: however many calls are followed, each of the
\* three holds fewer entries than calls were followed.
C36_PersistedStateBounded ==
    /\ correlation_ids < MaxOrchCalls
    /\ Cardinality(DOMAIN processed_alerts) < MaxOrchCalls
    /\ Cardinality(DOMAIN recent_trades) < MaxOrchCalls

\* C37 (as claimed): after any sequence of process_message calls every call
\* received has been counted under exactly one outcome: alerts_received =
\* alerts_processed + alerts_rejected + alerts_failed.
C37_EveryAlertAccounted ==
    stats.alerts_received =
        stats.alerts_processed + stats.alerts_rejected + stats.alerts_failed

\* C38: a call the gate rejects, because the circuit is OPEN inside its
\* timeout or HALF_OPEN with its trials used up, leaves failure_count and
\* last_failure_time as they were; and an OPEN circuit whose reset_timeout
\* has elapsed since last_failure_time admits the next call as a trial.
C38_RejectionsLeaveFailureRecord ==
    [][/\ cb_event' \in {"reject_open", "reject_half_open"}
            => /\ failure_count' = failure_count
               /\ last_failure_time' = last_failure_time
       /\ ( /\ state = "OPEN"
            /\ now - last_failure_time >= reset_timeout
            /\ cb_event' \in CallEvents )
            => (cb_event' = "admit" /\ state' = "HALF_OPEN")]_vars

\* A call has just been rejected by the OPEN circuit, some time after the
\* failure that opened it and short of the timeout.
C38_Witness ==
    /\ cb_event = "reject_open"
    /\ state = "OPEN"
    /\ last_failure_time < now
    /\ now - last_failure_time < reset_timeout

\* C39 (as claimed): at any time at most one socket opened by the gateway is
\* open, for every interleaving of start(), stop(), closes and timer firings.
C39_OneLiveConnection ==
    Cardinality({ s \in Sockets : sock[s] = "open" }) <= 1

\* The steps of on_message that call message_callback.
Forwards == {"forwarded", "callback_error"}

\* C40: on_message calls message_callback only for a message it has counted
\* and while message_count, that message included, is at most
\* message_throttle; message_count never goes down; and once it exceeds
\* message_throttle no later message reaches message_callback.
C40_ThrottleIsForLife ==
    [][/\ ls_event' \in Forwards
            => /\ message_count' = message_count + 1
               /\ message_count' <= message_throttle
       /\ message_count' >= message_count
       /\ message_count > message_throttle => ls_event' \notin Forwards]_vars

\* A message has been dropped by the throttle of a listener that allowed
\* some, and it was not the first one dropped.
C40_Witness ==
    /\ ls_event = "throttled"
    /\ message_throttle >= 1
    /\ message_count > message_throttle + 1

====
